---- MODULE Spec2Model ----
(***************************************************************************)
(* The IR interpreter of sanetaka (sntk_ir/src/interpreter.rs) over the IR *)
(* of sntk_ir/src/instruction.rs: environments, expression evaluation,     *)
(* instruction execution and the terminal value of an instruction list.    *)
(*                                                                         *)
(* One IrInterpreter is the state machine: `instructions` and              *)
(* `environment` are its two fields, `pc` is the position of the `for`     *)
(* loop of eval(), `state` tells whether eval() is running, has failed, or *)
(* last() has produced the terminal value, and `out` is what builtins have *)
(* written so far.  The interpreters that a Block or a Call creates run to *)
(* completion inside one step of their creator, as in the source, where    *)
(* they are local values of eval_expression.                               *)
(*                                                                         *)
(* Text (identifiers, string values, rendered values) is a sequence of     *)
(* character codes; Option<T> is a sequence of length 0 or 1.              *)
(*                                                                         *)
(* Two more components stand beside the interpreter, each with its own     *)
(* next-state relation: the Compiler of sntk_compiler/src/compiler.rs      *)
(* (`compiler` is the struct, `statement` the position of the loop of      *)
(* compile_program, `compiled` its result) and the SymbolTable of          *)
(* analyzer/src/symbol_table.rs (`table`, and `returned`, its last method   *)
(* call with what the call returned).                                      *)
(***************************************************************************)
EXTENDS Integers, Sequences, FiniteSets, TLC

VARIABLES instructions, environment, pc, state, result, out,
          compiler, statement, compiled,
          table, returned

interpreter_vars == <<instructions, environment, pc, state, result, out>>

compiler_vars == <<compiler, statement, compiled>>

table_vars == <<table, returned>>

vars == <<interpreter_vars, compiler_vars, table_vars>>

(***************************************************************************)
(* Option, Result, Position                                                *)
(***************************************************************************)
None == <<>>

Some(x) == <<x>>

Ok(v) == [ok |-> TRUE, v |-> v]

Err(kind, position) == [ok |-> FALSE, err |-> kind, position |-> position]

Position(line, column) == <<line, column>>

(***************************************************************************)
(* LiteralValue.  Number is an f64: the integer-valued ones are `n`; the   *)
(* quotient of two integers that is no integer (or has divisor 0: an       *)
(* infinity or NaN) is kept as the pair it was computed from.              *)
(***************************************************************************)
Number(n) == [t |-> "Number", n |-> n]

Quotient(l, r) == [t |-> "Number", q |-> <<l, r>>]

String(s) == [t |-> "String", s |-> s]

Boolean(b) == [t |-> "Boolean", b |-> b]

Array(a) == [t |-> "Array", a |-> a]

Function(parameters, block, return_type, env) ==
    [t |-> "Function", parameters |-> parameters, body |-> block,
     return_type |-> return_type, environment |-> env]

IsInteger(v) == v.t = "Number" /\ "n" \in DOMAIN v

(***************************************************************************)
(* IrExpression and Instruction                                            *)
(***************************************************************************)
Identifier(name) == [e |-> "Identifier", name |-> name]

Literal(value) == [e |-> "Literal", value |-> value]

Block(block) == [e |-> "Block", block |-> block]

If(condition, consequence, alternative) ==
    [e |-> "If", condition |-> condition, consequence |-> consequence,
     alternative |-> alternative]

Call(function, arguments) ==
    [e |-> "Call", function |-> function, arguments |-> arguments]

Index(left, index) == [e |-> "Index", left |-> left, index |-> index]

Prefix(operator, right) == [e |-> "Prefix", operator |-> operator, right |-> right]

Infix(left, operator, right) ==
    [e |-> "Infix", left |-> left, operator |-> operator, right |-> right]

StoreName(name, expression, position) ==
    [i |-> "StoreName", name |-> name, expression |-> expression, position |-> position]

Return(expression, position) ==
    [i |-> "Return", expression |-> expression, position |-> position]

Expression(expression, position) ==
    [i |-> "Expression", expression |-> expression, position |-> position]

InstructionNone(position) == [i |-> "None", position |-> position]

(***************************************************************************)
(* RuntimeErrorKind, as interpreter.rs constructs them.  The operator of   *)
(* InvalidOperator and InvalidOperands is the TokenKind itself: its        *)
(* rendering is defined outside these sources.                             *)
(***************************************************************************)
UndefinedVariable(name) == [kind |-> "UndefinedVariable", name |-> name]

NotAFunction(text) == [kind |-> "NotAFunction", value |-> text]

NotAnArray(text) == [kind |-> "NotAnArray", value |-> text]

IndexOutOfBounds(index) == [kind |-> "IndexOutOfBounds", index |-> index]

InvalidOperator(operator) == [kind |-> "InvalidOperator", operator |-> operator]

InvalidOperands(left, right, operator) ==
    [kind |-> "InvalidOperands", left |-> left, right |-> right, operator |-> operator]

\* unreachable!() of the If arm: a panic, no RuntimeError
Unreachable == [kind |-> "panic"]

(***************************************************************************)
(* fmt::Display for LiteralValue and IrExpression                          *)
(***************************************************************************)
RECURSIVE Digits(_)
Digits(n) == IF n < 10 THEN <<48 + n>> ELSE Digits(n \div 10) \o <<48 + (n % 10)>>

\* format!("{}", f64) of an integer-valued number
NumberToString(n) == IF n < 0 THEN <<45>> \o Digits(-n) ELSE Digits(n)

RECURSIVE Concat(_)
Concat(parts) == IF parts = <<>> THEN <<>> ELSE Head(parts) \o Concat(Tail(parts))

RECURSIVE Join(_, _)
Join(parts, separator) ==
    IF parts = <<>> THEN <<>>
    ELSE IF Len(parts) = 1 THEN parts[1]
    ELSE parts[1] \o separator \o Join(Tail(parts), separator)

RECURSIVE LiteralValue_to_string(_), IrExpression_to_string(_)
LiteralValue_to_string(value) ==
    CASE IsInteger(value) -> NumberToString(value.n)
      [] value.t = "String" -> value.s
      [] value.t = "Boolean" ->
            IF value.b THEN <<116, 114, 117, 101>> ELSE <<102, 97, 108, 115, 101>>
      [] value.t = "Array" ->
            <<91>> \o Join([k \in 1..Len(value.a) |-> IrExpression_to_string(value.a[k])],
                           <<44, 32>>) \o <<93>>
      [] value.t = "Function" ->
            <<102, 110, 40>> \o Concat(value.parameters) \o <<41, 32, 45, 62, 32>>
                \o value.return_type

\* The elements of an array value are literals (eval_expression rewraps them)
IrExpression_to_string(expression) ==
    CASE expression.e = "Identifier" -> expression.name
      [] expression.e = "Literal" ->
            IF expression.value.t = "String"
            THEN <<34>> \o expression.value.s \o <<34>>
            ELSE LiteralValue_to_string(expression.value)

(***************************************************************************)
(* IrEnvironment                                                           *)
(***************************************************************************)
EmptyMap == [n \in {} |-> FALSE]

IrEnvironment_new(parent) == [values |-> EmptyMap, parent |-> parent]

\* get as it would be if an outer binding won over an inner one
RECURSIVE get_outermost(_, _)
get_outermost(self, name) ==
    LET outer == IF self.parent # None THEN get_outermost(self.parent[1], name) ELSE None
    IN IF outer # None THEN outer
       ELSE IF name \in DOMAIN self.values THEN Some(self.values[name])
       ELSE None

RECURSIVE IrEnvironment_get(_, _)
IrEnvironment_get(self, name) ==
    IF name \in DOMAIN self.values THEN Some(self.values[name])
    ELSE IF self.parent # None THEN IrEnvironment_get(self.parent[1], name)
    ELSE None

\* set as it would be if it assigned to the frame that binds the name
RECURSIVE set_where_bound(_, _, _)
set_where_bound(self, name, value) ==
    IF name \notin DOMAIN self.values /\ self.parent # None
          /\ get_outermost(self.parent[1], name) # None
    THEN [self EXCEPT !.parent = Some(set_where_bound(self.parent[1], name, value))]
    ELSE [self EXCEPT !.values = (name :> value) @@ self.values]

IrEnvironment_set(self, name, value) ==
    [self EXCEPT !.values = (name :> value) @@ self.values]

(***************************************************************************)
(* TokenKind operators on evaluated operands (eval_expression, the Prefix  *)
(* and Infix arms).  Arithmetic is that of integer-valued f64 operands.    *)
(***************************************************************************)
Abs(n) == IF n < 0 THEN -n ELSE n

\* left / right of two integer-valued f64
Divide(l, r) ==
    IF r # 0 /\ Abs(l) % Abs(r) = 0
    THEN Number((IF (l < 0) = (r < 0) THEN 1 ELSE -1) * (Abs(l) \div Abs(r)))
    ELSE Quotient(l, r)

\* left < right of two Rust Strings: bytewise lexicographic
RECURSIVE TextLess(_, _)
TextLess(l, r) ==
    IF r = <<>> THEN FALSE
    ELSE IF l = <<>> THEN TRUE
    ELSE IF Head(l) # Head(r) THEN Head(l) < Head(r)
    ELSE TextLess(Tail(l), Tail(r))

NumberInfix(l, operator, r, position) ==
    CASE operator = "Plus" -> Ok(Number(l + r))
      [] operator = "Minus" -> Ok(Number(l - r))
      [] operator = "Asterisk" -> Ok(Number(l * r))
      [] operator = "Slash" -> Ok(Divide(l, r))
      [] operator = "EQ" -> Ok(Boolean(l = r))
      [] operator = "NEQ" -> Ok(Boolean(l # r))
      [] operator = "LT" -> Ok(Boolean(l < r))
      [] operator = "LTE" -> Ok(Boolean(l <= r))
      [] operator = "GT" -> Ok(Boolean(l > r))
      [] operator = "GTE" -> Ok(Boolean(l >= r))
      [] OTHER -> Err(InvalidOperator(operator), position)

StringInfix(l, operator, r, position) ==
    CASE operator = "Plus" -> Ok(String(l \o r))
      [] operator = "EQ" -> Ok(Boolean(l = r))
      [] operator = "NEQ" -> Ok(Boolean(l # r))
      [] operator = "LT" -> Ok(Boolean(TextLess(l, r)))
      [] operator = "LTE" -> Ok(Boolean(~TextLess(r, l)))
      [] operator = "GT" -> Ok(Boolean(TextLess(r, l)))
      [] operator = "GTE" -> Ok(Boolean(~TextLess(l, r)))
      [] OTHER -> Err(InvalidOperator(operator), position)

BooleanInfix(l, operator, r, position) ==
    CASE operator = "EQ" -> Ok(Boolean(l = r))
      [] operator = "NEQ" -> Ok(Boolean(l # r))
      [] OTHER -> Err(InvalidOperator(operator), position)

\* An Infix arm that reports every failure as InvalidOperands
infix_reporting_operands(left, operator, right, position) ==
    LET outcome ==
            CASE IsInteger(left) /\ IsInteger(right) ->
                    NumberInfix(left.n, operator, right.n, position)
              [] left.t = "String" /\ right.t = "String" ->
                    StringInfix(left.s, operator, right.s, position)
              [] left.t = "Boolean" /\ right.t = "Boolean" ->
                    BooleanInfix(left.b, operator, right.b, position)
              [] left.t # right.t \/ left.t \in {"Array", "Function"} ->
                    Err(Unreachable, position)
    IN IF outcome.ok THEN outcome
       ELSE Err(InvalidOperands(LiteralValue_to_string(left), LiteralValue_to_string(right),
                                operator), position)

\* match (left, right) of the Infix arm
infix(left, operator, right, position) ==
    CASE IsInteger(left) /\ IsInteger(right) ->
            NumberInfix(left.n, operator, right.n, position)
      [] left.t = "String" /\ right.t = "String" ->
            StringInfix(left.s, operator, right.s, position)
      [] left.t = "Boolean" /\ right.t = "Boolean" ->
            BooleanInfix(left.b, operator, right.b, position)
      [] left.t # right.t \/ left.t \in {"Array", "Function"} ->
            Err(InvalidOperands(LiteralValue_to_string(left), LiteralValue_to_string(right),
                                operator), position)

\* match (operator, right) of the Prefix arm
prefix(operator, right, position) ==
    CASE operator = "Minus" /\ IsInteger(right) -> Ok(Number(-right.n))
      [] operator = "Bang" /\ right.t = "Boolean" -> Ok(Boolean(~right.b))
      [] ~(operator = "Minus" /\ right.t = "Number")
            /\ ~(operator = "Bang" /\ right.t = "Boolean") ->
            Err(InvalidOperator(operator), position)

\* index as usize of an integer-valued f64: the cast saturates at 0
as_usize(n) == IF n < 0 THEN 0 ELSE n

\* match (left, index) of the Index arm, before the element is evaluated:
\* the element expression, or the error
index_element(left, index, position) ==
    CASE left.t = "Array" /\ IsInteger(index) ->
            IF as_usize(index.n) < Len(left.a)
            THEN Ok(left.a[as_usize(index.n) + 1])
            ELSE Err(IndexOutOfBounds(as_usize(index.n)), position)
      [] left.t # "Array" \/ index.t # "Number" ->
            Err(NotAnArray(LiteralValue_to_string(left)), position)

(***************************************************************************)
(* Builtin registry (sntk_ir/src/builtin.rs is not among the sources): one *)
(* builtin, log, which records its arguments and yields Boolean(false).    *)
(***************************************************************************)
Log == <<108, 111, 103>>

get_builtin_function(name) == IF name = Log THEN Some(Log) ELSE None

\* function(arguments) of a builtin: the value, and what has been written
call_builtin(function, arguments, written) ==
    [v |-> Boolean(FALSE), out |-> written \o arguments]

(***************************************************************************)
(* IrInterpreter.  `self` is [instructions, environment, out]: the two     *)
(* fields of the struct and what builtins have written.  Every method      *)
(* takes &mut self and yields [r |-> its Result, self |-> self after it].  *)
(***************************************************************************)
Unit == [t |-> "Unit"]

IrInterpreter_new(program, written) ==
    [instructions |-> program, environment |-> IrEnvironment_new(None), out |-> written]

IrInterpreter_new_with_environment(program, env, written) ==
    [instructions |-> program, environment |-> env, out |-> written]

\* A call environment of a bare function with no link to the calling scope
call_environment_detached(captured, current) ==
    IF captured # None THEN captured[1] ELSE IrEnvironment_new(None)

\* A call environment that takes no account of the capture of the function
call_environment_of_caller(captured, current) == IrEnvironment_new(Some(current))

\* A call environment of a bare function that is a child of the global frame
RECURSIVE call_environment_of_global(_, _)
call_environment_of_global(captured, current) ==
    IF captured # None THEN captured[1]
    ELSE IF current.parent # None THEN call_environment_of_global(captured, current.parent[1])
    ELSE IrEnvironment_new(Some(current))

\* The environment a called function runs in (interpreter.rs 173-176)
call_environment(captured, current) ==
    IF captured # None THEN captured[1] ELSE IrEnvironment_new(Some(current))

\* for (parameter, argument) in parameters.iter().zip(arguments.iter())
RECURSIVE bind_parameters(_, _, _)
bind_parameters(env, parameters, arguments) ==
    IF parameters = <<>> \/ arguments = <<>> THEN env
    ELSE bind_parameters(IrEnvironment_set(env, Head(parameters), Head(arguments)),
                         Tail(parameters), Tail(arguments))

\* A Call that hands the terminal value of the body on as it is
wrap_result_bare(value, env) == value

\* A Call that captures the environment of the body itself, with no new frame
wrap_result_shared(value, env) ==
    IF value.t = "Function"
    THEN Function(value.parameters, value.body, value.return_type,
                  Some(IF value.environment # None THEN value.environment[1] ELSE env))
    ELSE value

\* The value a Call yields from the terminal value of the body and the
\* environment the body was given (interpreter.rs 188-199)
wrap_result(value, env) ==
    IF value.t = "Function"
    THEN Function(value.parameters, value.body, value.return_type,
                  Some(IrEnvironment_new(Some(IF value.environment # None
                                              THEN value.environment[1]
                                              ELSE env))))
    ELSE value

\* A lookup that lets the name of a builtin pass as unbound
lookup_callee_after_builtins(env, name) ==
    IF get_builtin_function(name) # None THEN None ELSE IrEnvironment_get(env, name)

\* match self.environment.get(&name) of a callee that is an identifier
lookup_callee(env, name) == IrEnvironment_get(env, name)

RECURSIVE eval_expression(_, _, _), eval_list(_, _, _), eval_instruction(_, _)
RECURSIVE eval_from(_, _), last(_), run_interpreter(_), apply_function(_, _, _, _)

\* self.eval_expression over a list from its last expression to its first
RECURSIVE eval_list_reversed(_, _, _)
eval_list_reversed(self, expressions, position) ==
    IF expressions = <<>> THEN [r |-> Ok(<<>>), self |-> self]
    ELSE LET rest == eval_list_reversed(self, Tail(expressions), position)
             first == eval_expression(rest.self, Head(expressions), position)
         IN IF ~rest.r.ok THEN rest
            ELSE IF ~first.r.ok THEN first
            ELSE [r |-> Ok(<<first.r.v>> \o rest.r.v), self |-> first.self]

\* self.eval_expression over a list, left to right, stopping at the first Err
eval_list(self, expressions, position) ==
    IF expressions = <<>> THEN [r |-> Ok(<<>>), self |-> self]
    ELSE LET first == eval_expression(self, Head(expressions), position)
         IN IF ~first.r.ok THEN first
            ELSE LET rest == eval_list(first.self, Tail(expressions), position)
                 IN IF ~rest.r.ok THEN rest
                    ELSE [r |-> Ok(<<first.r.v>> \o rest.r.v), self |-> rest.self]

eval_instruction(self, instruction) ==
    CASE instruction.i = "StoreName" ->
            LET value == eval_expression(self, instruction.expression, instruction.position)
            IN IF ~value.r.ok THEN value
               ELSE [r |-> Ok(Unit),
                     self |-> [value.self EXCEPT !.environment =
                                  IrEnvironment_set(@, instruction.name, value.r.v)]]
      [] instruction.i = "Expression" ->
            LET value == eval_expression(self, instruction.expression, instruction.position)
            IN IF ~value.r.ok THEN value ELSE [r |-> Ok(Unit), self |-> value.self]
      [] instruction.i = "Return" -> [r |-> Ok(Unit), self |-> self]
      [] instruction.i = "None" -> [r |-> Ok(Unit), self |-> self]

\* A for loop that goes on with the next instruction after an Err
RECURSIVE eval_from_skipping(_, _)
eval_from_skipping(self, k) ==
    IF k > Len(self.instructions) THEN [r |-> Ok(Unit), self |-> self]
    ELSE eval_from_skipping(eval_instruction(self, self.instructions[k]).self, k + 1)

\* The for loop of eval(), from the k-th instruction on
eval_from(self, k) ==
    IF k > Len(self.instructions) THEN [r |-> Ok(Unit), self |-> self]
    ELSE LET step == eval_instruction(self, self.instructions[k])
         IN IF ~step.r.ok THEN step ELSE eval_from(step.self, k + 1)

eval(self) == eval_from(self, 1)

\* last() as it would be if it looked for the last Return of the list
last_of_any_return(self) ==
    LET returns == {k \in 1..Len(self.instructions) : self.instructions[k].i = "Return"}
        k == CHOOSE j \in returns : \A other \in returns : other <= j
    IN IF returns = {} THEN [r |-> Ok(Boolean(FALSE)), self |-> self]
       ELSE eval_expression(self, self.instructions[k].expression,
                            self.instructions[k].position)

last(self) ==
    IF self.instructions = <<>> THEN [r |-> Ok(Boolean(FALSE)), self |-> self]
    ELSE LET instruction == self.instructions[Len(self.instructions)]
         IN IF instruction.i = "Return"
            THEN eval_expression(self, instruction.expression, instruction.position)
            ELSE [r |-> Ok(Boolean(FALSE)), self |-> self]

\* interpreter.eval()?; interpreter.last()? on an interpreter just created
run_interpreter(interpreter) ==
    LET evaluated == eval(interpreter)
    IN IF ~evaluated.r.ok THEN evaluated ELSE last(evaluated.self)

\* The Call arm from the match on the callee's value on (interpreter.rs 169-199)
apply_function(self, function, arguments, position) ==
    IF function.t # "Function"
    THEN [r |-> Err(NotAFunction(LiteralValue_to_string(function)), position), self |-> self]
    ELSE LET env == bind_parameters(call_environment(function.environment, self.environment),
                                    function.parameters, arguments)
             ran == run_interpreter(
                        IrInterpreter_new_with_environment(function.body, env, self.out))
             after == [self EXCEPT !.out = ran.self.out]
         IN IF ~ran.r.ok THEN [r |-> ran.r, self |-> after]
            ELSE [r |-> Ok(wrap_result(ran.r.v, env)), self |-> after]

eval_expression(self, expression, position) ==
    CASE expression.e = "Identifier" ->
            LET value == IrEnvironment_get(self.environment, expression.name)
            IN IF value # None THEN [r |-> Ok(value[1]), self |-> self]
               ELSE [r |-> Err(UndefinedVariable(expression.name), position), self |-> self]
      [] expression.e = "Literal" ->
            IF expression.value.t = "Array"
            THEN LET array == eval_list(self, expression.value.a, position)
                 IN IF ~array.r.ok THEN array
                    ELSE [r |-> Ok(Array([k \in 1..Len(array.r.v) |-> Literal(array.r.v[k])])),
                          self |-> array.self]
            ELSE [r |-> Ok(expression.value), self |-> self]
      [] expression.e = "Block" ->
            LET ran == run_interpreter(IrInterpreter_new_with_environment(
                           expression.block, IrEnvironment_new(Some(self.environment)),
                           self.out))
            IN [r |-> ran.r, self |-> [self EXCEPT !.out = ran.self.out]]
      [] expression.e = "If" ->
            LET condition == eval_expression(self, expression.condition, position)
            IN IF ~condition.r.ok THEN condition
               ELSE IF condition.r.v = Boolean(TRUE)
               THEN eval_expression(condition.self, expression.consequence, position)
               ELSE IF condition.r.v = Boolean(FALSE)
               THEN IF expression.alternative # None
                    THEN eval_expression(condition.self, expression.alternative[1], position)
                    ELSE [r |-> Ok(Boolean(FALSE)), self |-> condition.self]
               ELSE [r |-> Err(Unreachable, position), self |-> condition.self]
      [] expression.e = "Call" ->
            LET arguments == eval_list(self, expression.arguments, position)
                function == expression.function
                bound == lookup_callee(arguments.self.environment, function.name)
            IN IF ~arguments.r.ok THEN arguments
               ELSE IF function.e = "Identifier" /\ bound = None
               THEN LET builtin == get_builtin_function(function.name)
                        called == call_builtin(builtin[1], arguments.r.v, arguments.self.out)
                    IN IF builtin # None
                       THEN [r |-> Ok(called.v),
                             self |-> [arguments.self EXCEPT !.out = called.out]]
                       ELSE [r |-> Err(UndefinedVariable(function.name), position),
                             self |-> arguments.self]
               ELSE LET callee == IF function.e = "Identifier"
                                  THEN [r |-> Ok(bound[1]), self |-> arguments.self]
                                  ELSE eval_expression(arguments.self, function, position)
                    IN IF ~callee.r.ok THEN callee
                       ELSE apply_function(callee.self, callee.r.v, arguments.r.v, position)
      [] expression.e = "Index" ->
            LET left == eval_expression(self, expression.left, position)
                index == eval_expression(left.self, expression.index, position)
                element == index_element(left.r.v, index.r.v, position)
            IN IF ~left.r.ok THEN left
               ELSE IF ~index.r.ok THEN index
               ELSE IF ~element.ok THEN [r |-> element, self |-> index.self]
               ELSE eval_expression(index.self, element.v, position)
      [] expression.e = "Prefix" ->
            LET right == eval_expression(self, expression.right, position)
            IN IF ~right.r.ok THEN right
               ELSE [r |-> prefix(expression.operator, right.r.v, position), self |-> right.self]
      [] expression.e = "Infix" ->
            LET left == eval_expression(self, expression.left, position)
                right == eval_expression(left.self, expression.right, position)
            IN IF ~left.r.ok THEN left
               ELSE IF ~right.r.ok THEN right
               ELSE [r |-> infix(left.r.v, expression.operator, right.r.v, position),
                     self |-> right.self]

(***************************************************************************)
(* The AST the compiler consumes (sntk_core::parser::ast, named as         *)
(* compiler.rs 8-12 imports it) and the instructions it emits              *)
(* (sntk_ir::code, named as compiler.rs 17 imports them).                  *)
(***************************************************************************)
BlockExpression(statements) == [x |-> "BlockExpression", statements |-> statements]

AstIdentifier(value) == [x |-> "Identifier", value |-> value]

\* The value field of each literal is named by its type: f64, String, bool
NumberLiteral(value, position) ==
    [x |-> "NumberLiteral", number |-> value, position |-> position]

StringLiteral(value, position) ==
    [x |-> "StringLiteral", string |-> value, position |-> position]

BooleanLiteral(value, position) ==
    [x |-> "BooleanLiteral", boolean |-> value, position |-> position]

ArrayLiteral(elements) == [x |-> "ArrayLiteral", elements |-> elements]

\* parameters: pairs <<Identifier, DataType>>; body: a BlockExpression
FunctionLiteral(parameters, body) ==
    [x |-> "FunctionLiteral", parameters |-> parameters, body |-> body]

\* pairs: pairs <<Identifier, Expression>>
ObjectLiteral(pairs) == [x |-> "ObjectLiteral", pairs |-> pairs]

PrefixExpression(operator, right) ==
    [x |-> "PrefixExpression", operator |-> operator, right |-> right]

InfixExpression(left, operator, right) ==
    [x |-> "InfixExpression", left |-> left, operator |-> operator, right |-> right]

CallExpression(function, arguments) ==
    [x |-> "CallExpression", function |-> function, arguments |-> arguments]

IndexExpression(left, index) == [x |-> "IndexExpression", left |-> left, index |-> index]

IfExpression(condition, consequence, alternative) ==
    [x |-> "IfExpression", condition |-> condition, consequence |-> consequence,
     alternative |-> alternative]

LetStatement(name, value, data_type) ==
    [s |-> "LetStatement", name |-> name, value |-> value, data_type |-> data_type]

ReturnStatement(value) == [s |-> "ReturnStatement", value |-> value]

TypeStatement == [s |-> "TypeStatement"]

ExpressionStatement(expression) == [s |-> "ExpressionStatement", expression |-> expression]

Instruction_LoadConst(value) == [c |-> "LoadConst", value |-> value]

Instruction_StoreName(name) == [c |-> "StoreName", name |-> name]

Instruction_LoadName(name) == [c |-> "LoadName", name |-> name]

Instruction_LoadGlobal(name) == [c |-> "LoadGlobal", name |-> name]

Instruction_Return == [c |-> "Return"]

Instruction_Block(block) == [c |-> "Block", block |-> block]

Instruction_UnaryOp(op) == [c |-> "UnaryOp", op |-> op]

Instruction_BinaryOp(op) == [c |-> "BinaryOp", op |-> op]

Instruction_BinaryOpEq(op) == [c |-> "BinaryOpEq", op |-> op]

Instruction_CallFunction(count) == [c |-> "CallFunction", count |-> count]

Instruction_If(consequence, alternative) ==
    [c |-> "If", consequence |-> consequence, alternative |-> alternative]

Value_LiteralValue(value) == [literal |-> value]

\* LiteralValue::Function { parameters, body } of sntk_ir::value
Value_Function(parameters, body) ==
    [t |-> "Function", parameters |-> parameters, body |-> body]

Value_Object(pairs) == [t |-> "Object", pairs |-> pairs]

\* A CompileResult that is no Ok: an Err(CompileError), or a panic
Failure(error) == [ok |-> FALSE, err |-> error]

ParsingError(errors) == [kind |-> "ParsingError", errors |-> errors]

\* todo!()
Todo == [kind |-> "todo"]

\* panic!() on an operator or a callee the compiler does not know
Panic == [kind |-> "panic"]

(***************************************************************************)
(* What compiler.rs uses of crate::ts, crate::error, crate::helpers and    *)
(* sntk_ir::builtin, none of them among the sources.                       *)
(***************************************************************************)
\* TypeSystem::get_data_type_from_expression on a literal
get_data_type_from_expression(expression) ==
    CASE expression.x = "NumberLiteral" -> "Number"
      [] expression.x = "StringLiteral" -> "String"
      [] expression.x = "BooleanLiteral" -> "Boolean"

\* TypeSystem(a).eq_from_type(&TypeSystem(b)) on primitive types
eq_from_type(a, b) == a = b

\* type_error!(EXPECTED_DATA_TYPE; type, data_type; position;): the error
\* names the annotated type as expected and the literal's type as found
type_error(type, data_type, position) ==
    [kind |-> "ExpectedDataType", expected |-> data_type, found |-> type,
     position |-> position]

\* literal_value of a literal expression
RECURSIVE literal_value(_)
literal_value(expression) ==
    CASE expression.x = "NumberLiteral" -> Value_LiteralValue(Number(expression.number))
      [] expression.x = "StringLiteral" -> Value_LiteralValue(String(expression.string))
      [] expression.x = "BooleanLiteral" -> Value_LiteralValue(Boolean(expression.boolean))
      [] expression.x = "ArrayLiteral" ->
            Value_LiteralValue(Array([k \in 1..Len(expression.elements) |->
                                         literal_value(expression.elements[k])]))

get_builtin(name) == get_builtin_function(name)

(***************************************************************************)
(* Compiler.  Every compile_* takes &mut self, of which it changes         *)
(* self.code, and yields [r |-> its CompileResult, code |-> self.code      *)
(* after it].                                                              *)
(***************************************************************************)
Compiler_new(ast) == [program |-> ast, code |-> <<>>]

\* match_type! { type; expression; position }: the Err it returns, or None
match_type(type, expression, data_type, position) ==
    LET expected == IF data_type # None THEN data_type[1]
                    ELSE get_data_type_from_expression(expression)
    IN IF ~eq_from_type(expected, type)
       THEN Some(Failure(type_error(type, expected, position)))
       ELSE None

\* A loop over the body that keeps the statements before the first Return
RECURSIVE statements_before_return(_)
statements_before_return(statements) ==
    IF statements = <<>> \/ Head(statements).s = "ReturnStatement" THEN <<>>
    ELSE <<Head(statements)>> \o statements_before_return(Tail(statements))

\* The loop of the FunctionLiteral arm (compiler.rs 184-193)
RECURSIVE statements_to_return(_)
statements_to_return(statements) ==
    IF statements = <<>> THEN <<>>
    ELSE IF Head(statements).s = "ReturnStatement" THEN <<Head(statements)>>
    ELSE <<Head(statements)>> \o statements_to_return(Tail(statements))

infix_instruction(operator) ==
    CASE operator = "Plus" -> Some(Instruction_BinaryOp("Add"))
      [] operator = "Minus" -> Some(Instruction_BinaryOp("Sub"))
      [] operator = "Asterisk" -> Some(Instruction_BinaryOp("Mul"))
      [] operator = "Slash" -> Some(Instruction_BinaryOp("Div"))
      [] operator = "Percent" -> Some(Instruction_BinaryOp("Mod"))
      [] operator = "EQ" -> Some(Instruction_BinaryOpEq("Eq"))
      [] operator = "NEQ" -> Some(Instruction_BinaryOpEq("Neq"))
      [] operator = "LT" -> Some(Instruction_BinaryOpEq("Lt"))
      [] operator = "GT" -> Some(Instruction_BinaryOpEq("Gt"))
      [] operator = "LTE" -> Some(Instruction_BinaryOpEq("Lte"))
      [] operator = "GTE" -> Some(Instruction_BinaryOpEq("Gte"))
      [] OTHER -> None

prefix_instruction(operator) ==
    CASE operator = "Minus" -> Some(Instruction_UnaryOp("Minus"))
      [] operator = "Bang" -> Some(Instruction_UnaryOp("Not"))
      [] OTHER -> None

RECURSIVE compile_expression(_, _, _), compile_expressions(_, _), compile_block(_)
RECURSIVE compile_statement(_, _), compile_statements(_, _)

\* A literal arm: match_type!, then push LoadConst
compile_literal(code, type, value, expression, data_type) ==
    LET mismatch == match_type(type, expression, data_type, expression.position)
    IN IF mismatch # None THEN [r |-> mismatch[1], code |-> code]
       ELSE [r |-> Ok(Unit),
             code |-> Append(code, Instruction_LoadConst(Value_LiteralValue(value)))]

\* for argument in arguments { self.compile_expression(&argument, None)?; }
compile_expressions(code, expressions) ==
    IF expressions = <<>> THEN [r |-> Ok(Unit), code |-> code]
    ELSE LET first == compile_expression(code, Head(expressions), None)
         IN IF ~first.r.ok THEN first ELSE compile_expressions(first.code, Tail(expressions))

\* compile_block: the code a Compiler of its own emits for the statements
compile_block(statements) ==
    LET block == compile_statements(<<>>, statements)
    IN IF ~block.r.ok THEN block.r ELSE Ok(block.code)

compile_expression(code, expression, data_type) ==
    CASE expression.x = "BlockExpression" ->
            LET block == compile_block(expression.statements)
            IN IF ~block.ok THEN [r |-> block, code |-> code]
               ELSE [r |-> Ok(Unit), code |-> Append(code, Instruction_Block(block.v))]
      [] expression.x = "Identifier" ->
            [r |-> Ok(Unit), code |-> Append(code, Instruction_LoadName(expression.value))]
      [] expression.x = "NumberLiteral" ->
            compile_literal(code, "Number", Number(expression.number), expression, data_type)
      [] expression.x = "StringLiteral" ->
            compile_literal(code, "String", String(expression.string), expression, data_type)
      [] expression.x = "BooleanLiteral" ->
            compile_literal(code, "Boolean", Boolean(expression.boolean), expression, data_type)
      [] expression.x = "ArrayLiteral" ->
            [r |-> Ok(Unit),
             code |-> Append(code, Instruction_LoadConst(Value_LiteralValue(Array(
                          [k \in 1..Len(expression.elements) |->
                              literal_value(expression.elements[k])]))))]
      [] expression.x = "FunctionLiteral" ->
            LET body == compile_block(statements_to_return(expression.body.statements))
            IN IF ~body.ok THEN [r |-> body, code |-> code]
               ELSE [r |-> Ok(Unit),
                     code |-> Append(code, Instruction_LoadConst(Value_LiteralValue(
                                  Value_Function(
                                      [k \in 1..Len(expression.parameters) |->
                                          expression.parameters[k][1].value],
                                      body.v))))]
      [] expression.x = "ObjectLiteral" ->
            [r |-> Ok(Unit),
             code |-> Append(code, Instruction_LoadConst(Value_LiteralValue(Value_Object(
                          [k \in 1..Len(expression.pairs) |->
                              <<expression.pairs[k][1].value,
                                literal_value(expression.pairs[k][2])>>]))))]
      [] expression.x = "PrefixExpression" ->
            LET right == compile_expression(code, expression.right, None)
                instruction == prefix_instruction(expression.operator)
            IN IF ~right.r.ok THEN right
               ELSE IF instruction = None THEN [r |-> Failure(Panic), code |-> right.code]
               ELSE [r |-> Ok(Unit), code |-> Append(right.code, instruction[1])]
      [] expression.x = "InfixExpression" ->
            LET left == compile_expression(code, expression.left, None)
                right == compile_expression(left.code, expression.right, None)
                instruction == infix_instruction(expression.operator)
            IN IF ~left.r.ok THEN left
               ELSE IF ~right.r.ok THEN right
               ELSE IF instruction = None THEN [r |-> Failure(Panic), code |-> right.code]
               ELSE [r |-> Ok(Unit), code |-> Append(right.code, instruction[1])]
      [] expression.x = "CallExpression" ->
            LET arguments == compile_expressions(code, expression.arguments)
                function == expression.function
                callee ==
                    CASE function.x = "Identifier" ->
                            [r |-> Ok(Unit),
                             code |-> Append(arguments.code,
                                             IF get_builtin(function.value) # None
                                             THEN Instruction_LoadGlobal(function.value)
                                             ELSE Instruction_LoadName(function.value))]
                      [] function.x \in {"FunctionLiteral", "CallExpression"} ->
                            compile_expression(arguments.code, function, None)
                      [] OTHER -> [r |-> Failure(Panic), code |-> arguments.code]
            IN IF ~arguments.r.ok THEN arguments
               ELSE IF ~callee.r.ok THEN callee
               ELSE [r |-> Ok(Unit),
                     code |-> Append(callee.code,
                                     Instruction_CallFunction(Len(expression.arguments)))]
      [] expression.x = "IndexExpression" -> [r |-> Failure(Todo), code |-> code]
      [] expression.x = "IfExpression" ->
            LET condition == compile_expression(code, expression.condition, None)
                consequence == compile_block(expression.consequence.statements)
                alternative == compile_block(expression.alternative[1].statements)
            IN IF ~condition.r.ok THEN condition
               ELSE IF ~consequence.ok THEN [r |-> consequence, code |-> condition.code]
               ELSE IF expression.alternative = None
               THEN [r |-> Ok(Unit),
                     code |-> Append(condition.code, Instruction_If(consequence.v, None))]
               ELSE IF ~alternative.ok THEN [r |-> alternative, code |-> condition.code]
               ELSE [r |-> Ok(Unit),
                     code |-> Append(condition.code,
                                     Instruction_If(consequence.v, Some(alternative.v)))]

\* The arm of compile_program for one statement
compile_statement(code, stmt) ==
    CASE stmt.s = "LetStatement" ->
            LET value == compile_expression(code, stmt.value, Some(stmt.data_type))
            IN IF ~value.r.ok THEN value
               ELSE [r |-> Ok(Unit),
                     code |-> Append(value.code, Instruction_StoreName(stmt.name.value))]
      [] stmt.s = "ReturnStatement" ->
            LET value == compile_expression(code, stmt.value, None)
            IN IF ~value.r.ok THEN value
               ELSE [r |-> Ok(Unit), code |-> Append(value.code, Instruction_Return)]
      [] stmt.s = "TypeStatement" -> [r |-> Failure(Todo), code |-> code]
      [] stmt.s = "ExpressionStatement" -> compile_expression(code, stmt.expression, None)

\* for statement in statements { ...? }
compile_statements(code, statements) ==
    IF statements = <<>> THEN [r |-> Ok(Unit), code |-> code]
    ELSE LET first == compile_statement(code, Head(statements))
         IN IF ~first.r.ok THEN first ELSE compile_statements(first.code, Tail(statements))

(***************************************************************************)
(* SymbolTable (analyzer/src/symbol_table.rs)                              *)
(***************************************************************************)
SymbolAttributes(function_return_type) == [function_return_type |-> function_return_type]

SymbolEntry(data_type, attributes) == [data_type |-> data_type, attributes |-> attributes]

SymbolTable_new(parent) == [entries |-> EmptyMap, parent |-> parent]

SymbolTable_insert(self, name, entry) ==
    [self EXCEPT !.entries = (name :> entry) @@ self.entries]

\* A lookup that prefers the entry of the outermost frame
RECURSIVE lookup_outermost(_, _)
lookup_outermost(self, name) ==
    LET outer == IF self.parent # None THEN lookup_outermost(self.parent[1], name) ELSE None
    IN IF outer # None THEN outer
       ELSE IF name \in DOMAIN self.entries THEN Some(self.entries[name])
       ELSE None

RECURSIVE SymbolTable_lookup(_, _)
SymbolTable_lookup(self, name) ==
    IF name \in DOMAIN self.entries THEN Some(self.entries[name])
    ELSE IF self.parent # None THEN SymbolTable_lookup(self.parent[1], name)
    ELSE None

\* The &mut SymbolEntry lookup_mut yields is a place: the number of parent
\* links from self to the frame whose entry it borrows
RECURSIVE SymbolTable_lookup_mut(_, _)
SymbolTable_lookup_mut(self, name) ==
    IF name \in DOMAIN self.entries THEN Some(0)
    ELSE IF self.parent = None THEN None
    ELSE LET place == SymbolTable_lookup_mut(self.parent[1], name)
         IN IF place = None THEN None ELSE Some(place[1] + 1)

\* *place, read
RECURSIVE entry_at(_, _, _)
entry_at(self, place, name) ==
    IF place = 0 THEN self.entries[name] ELSE entry_at(self.parent[1], place - 1, name)

\* *place = entry
RECURSIVE assign_at(_, _, _, _)
assign_at(self, place, name, entry) ==
    IF place = 0 THEN [self EXCEPT !.entries[name] = entry]
    ELSE [self EXCEPT !.parent = Some(assign_at(self.parent[1], place - 1, name, entry))]

\* The number of frames of a table
RECURSIVE table_depth(_)
table_depth(self) == IF self.parent = None THEN 1 ELSE 1 + table_depth(self.parent[1])

(***************************************************************************)
(* Bounds and the programs the interpreter is constructed with             *)
(***************************************************************************)
\* Longest instruction list an interpreter is constructed with
MaxLen == 3

\* Deepest chain of frames an interpreter is constructed with
MaxDepth == 2

X == <<120>>

Y == <<121>>

\* All instruction lists of at most n instructions of a pool
Programs(pool, n) == UNION {[1..k -> pool] : k \in 0..n}

\* A block that stores, reads and returns: every kind of instruction
BlockPool ==
    { StoreName(X, Literal(Number(1)), Position(1, 1)),
      StoreName(X, Literal(Number(2)), Position(2, 1)),
      Return(Identifier(X), Position(3, 1)),
      Return(Literal(Number(5)), Position(4, 1)),
      Expression(Identifier(X), Position(5, 1)),
      InstructionNone(Position(6, 1)) }

C == <<99>>

D == <<100>>

F == <<102>>

G == <<103>>

N == <<110>>

Make == <<109, 97, 107, 101>>

Reader == <<114, 101, 97, 100, 101, 114>>

Pass == <<112, 97, 115, 115>>

\* Declared return types, as DataTypeKind renders them
NumberType == <<110, 117, 109, 98, 101, 114>>

FnType == <<102, 110>>

\* fn(x) { return x + n; }
Adder ==
    Function(<<X>>, <<Return(Infix(Identifier(X), "Plus", Identifier(N)), Position(21, 1))>>,
             NumberType, None)

\* fn(n) { return fn(x) { return x + n; }; }
MakeAdder == Function(<<N>>, <<Return(Literal(Adder), Position(20, 1))>>, FnType, None)

\* fn(x) { return g; }
ReadG == Function(<<X>>, <<Return(Identifier(G), Position(31, 1))>>, NumberType, None)

\* fn() { return fn(x) { return g; }; }
MakeReader == Function(<<>>, <<Return(Literal(ReadG), Position(30, 1))>>, FnType, None)

\* fn() { return c; }
PassC == Function(<<>>, <<Return(Identifier(C), Position(40, 1))>>, FnType, None)

\* let make = MakeAdder; let pass = PassC;
ClosurePrelude ==
    << StoreName(Make, Literal(MakeAdder), Position(1, 1)),
       StoreName(Pass, Literal(PassC), Position(2, 1)) >>

\* Closures made by make and handed on by pass, called directly and by name
ClosurePool ==
    { StoreName(C, Call(Identifier(Make), <<Literal(Number(1))>>), Position(3, 1)),
      StoreName(D, Call(Identifier(Make), <<Literal(Number(2))>>), Position(4, 1)),
      StoreName(D, Call(Identifier(Pass), <<>>), Position(5, 1)),
      StoreName(N, Literal(Number(9)), Position(6, 1)),
      Return(Call(Identifier(C), <<Literal(Number(4))>>), Position(7, 1)),
      Return(Call(Identifier(D), <<Literal(Number(5))>>), Position(8, 1)),
      Return(Call(Call(Identifier(Make), <<Literal(Number(3))>>), <<Literal(Number(4))>>),
             Position(9, 1)),
      Expression(Call(Identifier(D), <<Literal(Number(4))>>), Position(10, 1)),
      InstructionNone(Position(11, 1)) }

\* let reader = MakeReader; with and without a first binding of g
CapturePreludes ==
    { <<StoreName(Reader, Literal(MakeReader), Position(1, 1))>>,
      << StoreName(Reader, Literal(MakeReader), Position(1, 1)),
         StoreName(G, Literal(Number(1)), Position(2, 1)) >> }

\* A closure over g, stores of g before and after its capture, and its call
CapturePool ==
    { StoreName(C, Call(Identifier(Reader), <<>>), Position(3, 1)),
      StoreName(G, Literal(Number(5)), Position(4, 1)),
      StoreName(G, Literal(Number(6)), Position(5, 1)),
      Return(Call(Identifier(C), <<Literal(Number(4))>>), Position(6, 1)),
      Expression(Call(Identifier(C), <<Literal(Number(4))>>), Position(7, 1)),
      InstructionNone(Position(8, 1)) }

\* fn(x) { let g = x; let y = 3; return g; }
WriteG ==
    Function(<<X>>, << StoreName(G, Identifier(X), Position(51, 1)),
                       StoreName(Y, Literal(Number(3)), Position(52, 1)),
                       Return(Identifier(G), Position(53, 1)) >>,
             NumberType, None)

\* let reader = MakeReader;
CallPrelude == <<StoreName(Reader, Literal(MakeReader), Position(1, 1))>>

\* A function f bound in the top-level scope as a bare lambda or as a closure,
\* and calls of f from that scope and from blocks nested in it, with one
\* argument, with none and with two
CallPool ==
    { StoreName(G, Literal(Number(1)), Position(2, 1)),
      StoreName(F, Literal(ReadG), Position(3, 1)),
      StoreName(F, Literal(WriteG), Position(4, 1)),
      StoreName(F, Call(Identifier(Reader), <<>>), Position(5, 1)),
      Return(Call(Identifier(F), <<Literal(Number(4))>>), Position(6, 1)),
      Return(Block(<< StoreName(G, Literal(Number(9)), Position(7, 2)),
                      Return(Call(Identifier(F), <<Literal(Number(4))>>), Position(7, 3)) >>),
             Position(7, 1)),
      Return(Block(<<Return(Call(Identifier(F), <<Literal(Number(4))>>), Position(8, 2))>>),
             Position(8, 1)),
      Return(Call(Identifier(F), <<>>), Position(9, 1)),
      Return(Call(Identifier(F), <<Literal(Number(4)), Literal(Number(5))>>), Position(10, 1)),
      Expression(Call(Identifier(F), <<Literal(Number(4))>>), Position(11, 1)),
      InstructionNone(Position(12, 1)) }

\* TokenKind of the operators an Infix expression may carry
Operators ==
    {"Plus", "Minus", "Asterisk", "Slash", "Percent", "EQ", "NEQ", "LT", "LTE", "GT", "GTE",
     "Bang"}

\* Operand values of every LiteralValue variant
Operands ==
    { Number(0), Number(2), Number(-3),
      String(<<>>), String(<<97>>), String(<<97, 98>>),
      Boolean(TRUE), Boolean(FALSE),
      Array(<<Literal(Number(1))>>), ReadG }

\* let x = left; right; return x operator right;
InfixProgram(left, operator, right) ==
    << StoreName(X, Literal(left), Position(1, 1)),
       InstructionNone(Position(2, 1)),
       Expression(Literal(right), Position(3, 1)),
       Return(Infix(Identifier(X), operator, Literal(right)), Position(4, 1)) >>

\* The longest array literal indexed
MaxArr == 2

Elements == {Literal(Number(10)), Literal(Number(20)), Literal(String(<<97>>))}

\* let x = [elements]; x; return x[index];
IndexProgram(elements, index) ==
    << StoreName(X, Literal(Array(elements)), Position(1, 1)),
       InstructionNone(Position(2, 1)),
       Expression(Identifier(X), Position(3, 1)),
       Return(Index(Identifier(X), Literal(Number(index))), Position(4, 1)) >>

U == <<117>>

\* log(n);
LogOf(n, position) == Expression(Call(Identifier(Log), <<Literal(Number(n))>>), position)

\* let x = 1;
StoreX == StoreName(X, Literal(Number(1)), Position(1, 1))

\* let y = u;  with u never bound
FailStore == StoreName(Y, Identifier(U), Position(2, 1))

\* { log(7); let x = !1; log(8); return 3; }
FailBlock ==
    Expression(Block(<< LogOf(7, Position(4, 2)),
                        StoreName(X, Prefix("Bang", Literal(Number(1))), Position(4, 3)),
                        LogOf(8, Position(4, 4)),
                        Return(Literal(Number(3)), Position(4, 5)) >>),
               Position(4, 1))

\* let y = fn() { log(9); 1[0]; log(10); }();
FailCall ==
    StoreName(Y, Call(Literal(Function(<<>>,
                                       << LogOf(9, Position(50, 1)),
                                          Expression(Index(Literal(Number(1)), Literal(Number(0))),
                                                     Position(50, 2)),
                                          LogOf(10, Position(50, 3)) >>,
                                       NumberType, None)),
                      <<>>),
              Position(5, 1))

\* Instructions that fail at the top level, in a block and in a function body,
\* among instructions that bind, log and do nothing
ErrorPool ==
    { StoreX, FailStore, LogOf(2, Position(3, 1)), FailBlock, FailCall,
      Return(Identifier(U), Position(6, 1)), InstructionNone(Position(7, 1)) }

\* log(n) as an expression
Logging(n) == Call(Identifier(Log), <<Literal(Number(n))>>)

\* fn(x, y) { log(5); return x; }
LogFive ==
    Function(<<X, Y>>, <<LogOf(5, Position(60, 1)), Return(Identifier(X), Position(60, 2))>>,
             NumberType, None)

\* let x = log(3) == log(4);
StoreInfix == StoreName(X, Infix(Logging(3), "EQ", Logging(4)), Position(3, 1))

\* let f = LogFive;
StoreF == StoreName(F, Literal(LogFive), Position(4, 1))

\* f(log(6), log(7));
CallF == Expression(Call(Identifier(F), <<Logging(6), Logging(7)>>), Position(5, 1))

\* return f(log(8), log(9));
ReturnF == Return(Call(Identifier(F), <<Logging(8), Logging(9)>>), Position(6, 1))

\* Statements that log, operands and arguments that log, and a callee whose
\* body logs
OrderPool ==
    { LogOf(1, Position(1, 1)), LogOf(2, Position(2, 1)), StoreInfix, StoreF, CallF, ReturnF,
      InstructionNone(Position(7, 1)) }

\* fn(x) { return 42; }
UserLog == Function(<<X>>, <<Return(Literal(Number(42)), Position(70, 1))>>, NumberType, None)

\* Bindings of the name log to a function and to a number, and calls of log
\* and of a name nobody binds, from the top level and from a nested block
BuiltinPool ==
    { StoreName(Log, Literal(UserLog), Position(1, 1)),
      StoreName(Log, Literal(Number(1)), Position(2, 1)),
      LogOf(3, Position(3, 1)),
      Return(Logging(4), Position(4, 1)),
      Return(Call(Identifier(U), <<Literal(Number(4))>>), Position(5, 1)),
      Return(Block(<<Return(Logging(4), Position(6, 2))>>), Position(6, 1)),
      InstructionNone(Position(7, 1)) }

R == <<114>>

\* fn(x) { return if (x) { r(false) } else { g }; }
Countdown ==
    Function(<<X>>,
             <<Return(If(Identifier(X), Call(Identifier(R), <<Literal(Boolean(FALSE))>>),
                         Some(Identifier(G))),
                      Position(61, 1))>>,
             NumberType, None)

\* let f = fn(x) { return g; }; let r = Countdown;
DynamicPrelude ==
    << StoreName(F, Literal(ReadG), Position(1, 1)),
       StoreName(R, Literal(Countdown), Position(2, 1)) >>

\* Stores of g after f and r are defined, and calls of f and of r from the top
\* level and from a block that binds g itself
DynamicPool ==
    { StoreName(G, Literal(Number(1)), Position(3, 1)),
      StoreName(G, Literal(Number(2)), Position(4, 1)),
      Return(Call(Identifier(F), <<Literal(Number(4))>>), Position(5, 1)),
      Return(Block(<< StoreName(G, Literal(Number(9)), Position(6, 2)),
                      Return(Call(Identifier(F), <<Literal(Number(4))>>), Position(6, 3)) >>),
             Position(6, 1)),
      Return(Call(Identifier(R), <<Literal(Boolean(TRUE))>>), Position(7, 1)),
      Return(Block(<< StoreName(G, Literal(Number(9)), Position(8, 2)),
                      Return(Call(Identifier(R), <<Literal(Boolean(TRUE))>>),
                             Position(8, 3)) >>),
             Position(8, 1)),
      Expression(Call(Identifier(R), <<Literal(Boolean(FALSE))>>), Position(9, 1)),
      InstructionNone(Position(10, 1)) }

\* The longest program handed to the compiler
MaxStatements == 2

\* The longest body of a function literal
MaxBody == 3

\* 1
One == NumberLiteral(1, Position(1, 9))

\* "hi"
Hi == StringLiteral(<<104, 105>>, Position(1, 9))

\* true
Yes == BooleanLiteral(TRUE, Position(1, 9))

\* The values of let statements: one expression of every kind
LetValues ==
    { One, Hi, Yes,
      AstIdentifier(Y),
      PrefixExpression("Minus", One),
      InfixExpression(One, "Plus", One),
      CallExpression(AstIdentifier(Log), <<One>>),
      IfExpression(Yes, BlockExpression(<<ExpressionStatement(One)>>), None),
      ArrayLiteral(<<One>>),
      FunctionLiteral(<<>>, BlockExpression(<<ReturnStatement(One)>>)) }

\* let x: T = value; for every value and two annotations, let y: number = 1;
\* and a statement of every other kind
StatementPool ==
    {LetStatement(AstIdentifier(X), value, type) :
        value \in LetValues, type \in {"Number", "String"}}
    \cup { LetStatement(AstIdentifier(Y), One, "Number"),
           ReturnStatement(One), ExpressionStatement(Hi), TypeStatement }

\* What the parser may have accumulated in Program.errors
ParseErrors == {<<>>, <<"unexpected token">>}

\* The statements of function bodies: Returns at the top of the body, a
\* Return nested in an if, and statements that are no Return
BodyPool ==
    { LetStatement(AstIdentifier(X), One, "Number"),
      ReturnStatement(One),
      ReturnStatement(AstIdentifier(X)),
      ExpressionStatement(Hi),
      ExpressionStatement(IfExpression(Yes, BlockExpression(<<ReturnStatement(Hi)>>), None)) }

\* let f: T = fn(x) body; fn(x) body; return fn(x) body;  and then `rest`
FunctionProgram(body, rest) ==
    LET literal == FunctionLiteral(<< <<AstIdentifier(X), "Number">> >>, BlockExpression(body))
    IN << LetStatement(AstIdentifier(F), literal, "Function"),
          ExpressionStatement(literal),
          ReturnStatement(literal) >> \o rest

\* The entries of a variable and of a function
Entries ==
    { SymbolEntry("Number", SymbolAttributes(None)),
      SymbolEntry("Function", SymbolAttributes(Some("Number"))) }

\* The maps of the frames an environment chain is built from
FrameSet ==
    { EmptyMap,
      X :> Number(1),
      Y :> Number(2),
      (X :> Number(3)) @@ (Y :> Number(4)) }

\* The environments of at most `depth` frames
RECURSIVE Chains(_)
Chains(depth) ==
    IF depth = 1 THEN {[values |-> map, parent |-> None] : map \in FrameSet}
    ELSE Chains(depth - 1)
         \cup {[values |-> map, parent |-> Some(chain)] :
                  map \in FrameSet, chain \in Chains(depth - 1)}

\* Stores and reads of two names: every kind of instruction
EnvPool ==
    { StoreName(X, Literal(Number(7)), Position(1, 1)),
      StoreName(Y, Identifier(X), Position(2, 1)),
      Return(Identifier(X), Position(3, 1)),
      Return(Identifier(Y), Position(4, 1)),
      Expression(Identifier(Y), Position(5, 1)),
      InstructionNone(Position(6, 1)) }

(***************************************************************************)
(* The state machine of one interpreter                                    *)
(***************************************************************************)
Pending == [pending |-> TRUE]

Self == [instructions |-> instructions, environment |-> environment, out |-> out]

\* No program has been handed to a Compiler
NoCompiler ==
    /\ compiler = [program |-> [statements |-> <<>>, errors |-> <<>>], code |-> <<>>]
    /\ statement = 0
    /\ compiled = Pending

\* No symbol has been entered into a SymbolTable
NoTable ==
    /\ table = [entries |-> EmptyMap, parent |-> None]
    /\ returned = Pending

\* No instruction list has been handed to an IrInterpreter
NoInterpreter ==
    /\ instructions = <<>>
    /\ environment = IrEnvironment_new(None)
    /\ out = <<>>
    /\ pc = 0
    /\ state = "none"
    /\ result = Pending

\* The state after Compiler::new(ast), before compile_program is called
CompilerConstructed(ast) ==
    /\ NoInterpreter
    /\ NoTable
    /\ compiler = Compiler_new(ast)
    /\ statement = 0
    /\ compiled = Pending

\* The state after SymbolTable::new(None)
TableConstructed ==
    /\ NoInterpreter
    /\ NoCompiler
    /\ table = SymbolTable_new(None)
    /\ returned = Pending

\* The state after construction of `interpreter`, before eval() is called
Constructed(interpreter) ==
    /\ NoCompiler
    /\ NoTable
    /\ instructions = interpreter.instructions
    /\ environment = interpreter.environment
    /\ out = interpreter.out
    /\ pc = 0
    /\ state = "eval"
    /\ result = Pending

\* IrInterpreter::new on the instruction list of a block
Init == \E program \in Programs(BlockPool, MaxLen) :
            Constructed(IrInterpreter_new(program, <<>>))

\* The instruction the for loop of eval() is at
AtInstruction(kind) ==
    /\ state = "eval"
    /\ pc < Len(instructions)
    /\ instructions[pc + 1].i = kind

\* One iteration of the for loop of eval(): self.eval_instruction(instruction)?
Iteration ==
    /\ LET step == eval_instruction(Self, instructions[pc + 1])
       IN /\ environment' = step.self.environment
          /\ out' = step.self.out
          /\ IF step.r.ok
             THEN pc' = pc + 1 /\ state' = "eval" /\ result' = result
             ELSE pc' = pc /\ state' = "failed" /\ result' = step.r
    /\ UNCHANGED <<instructions, compiler_vars, table_vars>>

EvalStoreName ==
    /\ AtInstruction("StoreName")
    /\ Iteration

EvalExpression ==
    /\ AtInstruction("Expression")
    /\ Iteration

EvalReturn ==
    /\ AtInstruction("Return")
    /\ Iteration

EvalNone ==
    /\ AtInstruction("None")
    /\ Iteration

\* eval() has returned Ok(()): last() yields the terminal value
Last ==
    /\ state = "eval"
    /\ pc = Len(instructions)
    /\ LET terminal == last(Self)
       IN /\ environment' = terminal.self.environment
          /\ out' = terminal.self.out
          /\ result' = terminal.r
    /\ state' = "done"
    /\ UNCHANGED <<instructions, pc, compiler_vars, table_vars>>

Next == EvalStoreName \/ EvalExpression \/ EvalReturn \/ EvalNone \/ Last

Spec == Init /\ [][Next]_vars

\* IrInterpreter::new_with_environment on a chain of frames: the interpreter of
\* a block or of a function body
InitEnv == \E program \in Programs(EnvPool, MaxLen), env \in Chains(MaxDepth) :
               Constructed(IrInterpreter_new_with_environment(program, env, <<>>))

SpecEnv == InitEnv /\ [][Next]_vars

\* IrInterpreter::new on a program that binds make and pass and goes on with
\* instructions of ClosurePool
InitClosure == \E rest \in Programs(ClosurePool, MaxLen) :
                   Constructed(IrInterpreter_new(ClosurePrelude \o rest, <<>>))

SpecClosure == InitClosure /\ [][Next]_vars

\* IrInterpreter::new on a program that binds reader and goes on with
\* instructions of CapturePool
InitCapture == \E prelude \in CapturePreludes, rest \in Programs(CapturePool, MaxLen) :
                   Constructed(IrInterpreter_new(prelude \o rest, <<>>))

SpecCapture == InitCapture /\ [][Next]_vars

\* IrInterpreter::new on a program that binds reader and goes on with
\* instructions of CallPool
InitCall == \E rest \in Programs(CallPool, MaxLen) :
                Constructed(IrInterpreter_new(CallPrelude \o rest, <<>>))

SpecCall == InitCall /\ [][Next]_vars

\* IrInterpreter::new on an InfixProgram
InitOps == \E left \in Operands, operator \in Operators, right \in Operands :
               Constructed(IrInterpreter_new(InfixProgram(left, operator, right), <<>>))

SpecOps == InitOps /\ [][Next]_vars

\* IrInterpreter::new on an IndexProgram
InitIndex == \E elements \in Programs(Elements, MaxArr), index \in (0 - MaxArr - 1)..(MaxArr + 1) :
                 Constructed(IrInterpreter_new(IndexProgram(elements, index), <<>>))

SpecIndex == InitIndex /\ [][Next]_vars

\* IrInterpreter::new on a program of instructions of ErrorPool
InitError == \E program \in Programs(ErrorPool, MaxLen) :
                 Constructed(IrInterpreter_new(program, <<>>))

SpecError == InitError /\ [][Next]_vars

\* IrInterpreter::new on a program of instructions of OrderPool
InitOrder == \E program \in Programs(OrderPool, MaxLen) :
                 Constructed(IrInterpreter_new(program, <<>>))

SpecOrder == InitOrder /\ [][Next]_vars

\* IrInterpreter::new on a program of instructions of BuiltinPool
InitBuiltin == \E program \in Programs(BuiltinPool, MaxLen) :
                   Constructed(IrInterpreter_new(program, <<>>))

SpecBuiltin == InitBuiltin /\ [][Next]_vars

\* IrInterpreter::new on a program that binds f and r to bare functions and
\* goes on with instructions of DynamicPool
InitDynamic == \E rest \in Programs(DynamicPool, MaxLen) :
                   Constructed(IrInterpreter_new(DynamicPrelude \o rest, <<>>))

SpecDynamic == InitDynamic /\ [][Next]_vars

(***************************************************************************)
(* compile_program, one step per statement of the program                  *)
(***************************************************************************)
\* if !self.program.errors.is_empty() { return Err(ParsingError(..)) }
RefuseParsingErrors ==
    /\ compiled = Pending
    /\ statement = 0
    /\ compiler.program.errors # <<>>
    /\ compiled' = Failure(ParsingError(compiler.program.errors))
    /\ UNCHANGED <<compiler, statement, interpreter_vars, table_vars>>

\* The statement the for loop of compile_program is at
AtStatement(kind) ==
    /\ compiled = Pending
    /\ compiler.program.errors = <<>>
    /\ statement < Len(compiler.program.statements)
    /\ compiler.program.statements[statement + 1].s = kind

\* One iteration of the for loop of compile_program
CompileIteration ==
    /\ LET step == compile_statement(compiler.code, compiler.program.statements[statement + 1])
       IN /\ compiler' = [compiler EXCEPT !.code = step.code]
          /\ IF step.r.ok
             THEN statement' = statement + 1 /\ compiled' = compiled
             ELSE statement' = statement /\ compiled' = step.r
    /\ UNCHANGED <<interpreter_vars, table_vars>>

CompileLetStatement ==
    /\ AtStatement("LetStatement")
    /\ CompileIteration

CompileReturnStatement ==
    /\ AtStatement("ReturnStatement")
    /\ CompileIteration

CompileTypeStatement ==
    /\ AtStatement("TypeStatement")
    /\ CompileIteration

CompileExpressionStatement ==
    /\ AtStatement("ExpressionStatement")
    /\ CompileIteration

\* Ok(Interpreter::new(self.code.clone().0))
CompileProgramOk ==
    /\ compiled = Pending
    /\ compiler.program.errors = <<>>
    /\ statement = Len(compiler.program.statements)
    /\ compiled' = Ok([code |-> compiler.code])
    /\ UNCHANGED <<compiler, statement, interpreter_vars, table_vars>>

NextCompile ==
    \/ RefuseParsingErrors
    \/ CompileLetStatement
    \/ CompileReturnStatement
    \/ CompileTypeStatement
    \/ CompileExpressionStatement
    \/ CompileProgramOk

\* Compiler::new on a program of statements of StatementPool
InitCompile ==
    \E statements \in Programs(StatementPool, MaxStatements), errors \in ParseErrors :
        CompilerConstructed([statements |-> statements, errors |-> errors])

SpecCompile == InitCompile /\ [][NextCompile]_vars

\* Compiler::new on a FunctionProgram
InitFunction ==
    \E body \in Programs(BodyPool, MaxBody), rest \in {<<>>, <<TypeStatement>>},
       errors \in ParseErrors :
        CompilerConstructed([statements |-> FunctionProgram(body, rest), errors |-> errors])

SpecFunction == InitFunction /\ [][NextCompile]_vars

(***************************************************************************)
(* The methods of SymbolTable, called in any order on one table            *)
(***************************************************************************)
\* table = SymbolTable::new(Some(table)): a scope is entered
NewChild ==
    /\ table_depth(table) <= MaxDepth
    /\ table' = SymbolTable_new(Some(table))
    /\ returned' = [op |-> "new"]
    /\ UNCHANGED <<interpreter_vars, compiler_vars>>

Insert ==
    /\ \E name \in {X, Y}, entry \in Entries :
          /\ table' = SymbolTable_insert(table, name, entry)
          /\ returned' = [op |-> "insert", name |-> name, entry |-> entry]
    /\ UNCHANGED <<interpreter_vars, compiler_vars>>

Lookup ==
    /\ \E name \in {X, Y} :
          returned' = [op |-> "lookup", name |-> name, r |-> SymbolTable_lookup(table, name)]
    /\ UNCHANGED <<table, interpreter_vars, compiler_vars>>

\* lookup_mut, and a read of the entry borrowed
LookupMut ==
    /\ \E name \in {X, Y} :
          LET place == SymbolTable_lookup_mut(table, name)
          IN returned' = [op |-> "lookup_mut", name |-> name,
                          r |-> IF place = None THEN None
                                ELSE Some(entry_at(table, place[1], name))]
    /\ UNCHANGED <<table, interpreter_vars, compiler_vars>>

\* if let Some(place) = table.lookup_mut(name) { *place = entry; }
AssignThroughLookupMut ==
    /\ \E name \in {X, Y}, entry \in Entries :
          LET place == SymbolTable_lookup_mut(table, name)
          IN /\ place # None
             /\ table' = assign_at(table, place[1], name, entry)
             /\ returned' = [op |-> "assign", name |-> name, entry |-> entry]
    /\ UNCHANGED <<interpreter_vars, compiler_vars>>

NextTable == NewChild \/ Insert \/ Lookup \/ LookupMut \/ AssignThroughLookupMut

SpecTable == TableConstructed /\ [][NextTable]_vars

(***************************************************************************)
(* What a program of literal stores and reads must yield, read off the     *)
(* program text                                                            *)
(***************************************************************************)
IsReturn(instruction) == instruction.i = "Return"

ReturnsOf(program) == {k \in 1..Len(program) : IsReturn(program[k])}

Latest(positions) == CHOOSE k \in positions : \A other \in positions : other <= k

\* The instructions of `program` that store a literal into `name`
StoresOf(program, name) ==
    {k \in 1..Len(program) : /\ program[k].i = "StoreName"
                             /\ program[k].name = name
                             /\ program[k].expression.e = "Literal"}

\* The value of the Return `instruction` (of a literal or a name) once every
\* store of `program` has been executed in an empty frame
ValueAtEnd(program, instruction) ==
    IF instruction.expression.e = "Literal" THEN Ok(instruction.expression.value)
    ELSE IF StoresOf(program, instruction.expression.name) = {}
    THEN Err(UndefinedVariable(instruction.expression.name), instruction.position)
    ELSE Ok(program[Latest(StoresOf(program, instruction.expression.name))].expression.value)

(***************************************************************************)
(* C8                                                                      *)
(***************************************************************************)
\* C8, as claimed: the value of a block is the value of the last Return that
\* occurs anywhere in its instruction list, evaluated in the final environment,
\* and Boolean(false) when the list holds no Return.
C8_ValueOfLastReturnAnywhere ==
    state = "done" =>
        result = IF ReturnsOf(instructions) = {} THEN Ok(Boolean(FALSE))
                 ELSE ValueAtEnd(instructions, instructions[Latest(ReturnsOf(instructions))])

\* C8, amended: the value of a block is the value of the expression of its LAST
\* INSTRUCTION when that instruction is a Return, evaluated in the block's final
\* environment, and Boolean(false) in every other case: an empty list, a list
\* with no Return, and a list whose Return is followed by another instruction.
C8_ValueOfTrailingReturn ==
    state = "done" =>
        result = IF instructions # <<>> /\ IsReturn(instructions[Len(instructions)])
                 THEN ValueAtEnd(instructions, instructions[Len(instructions)])
                 ELSE Ok(Boolean(FALSE))

\* C8: a block of two stores of x and a trailing return of x has yielded the
\* second value
C8_Witness ==
    /\ state = "done"
    /\ Len(instructions) = 3
    /\ StoresOf(instructions, X) = {1, 2}
    /\ instructions[1] # instructions[2]
    /\ instructions[3].i = "Return"
    /\ instructions[3].expression = Identifier(X)
    /\ result = Ok(instructions[2].expression.value)

(***************************************************************************)
(* C1, C2                                                                  *)
(***************************************************************************)
Names == {X, Y}

\* The maps of a chain, innermost first
RECURSIVE Frames(_)
Frames(env) ==
    <<env.values>> \o (IF env.parent = None THEN <<>> ELSE Frames(env.parent[1]))

\* The binding of `name` in the first frame of the chain that has one
Nearest(env, name) ==
    LET frames == Frames(env)
        binding == {k \in 1..Len(frames) : name \in DOMAIN frames[k]}
    IN IF binding = {} THEN None
       ELSE Some(frames[CHOOSE k \in binding : \A other \in binding : k <= other][name])

\* C1: no step of an interpreter whose environment C has a parent P changes
\* P: after the step C still has that parent, and P.get(n) is what it was for
\* every name n (StoreName is the only caller of set, and it sets in C).
C1_SetLeavesParent ==
    [][environment.parent # None =>
          /\ environment'.parent # None
          /\ \A n \in Names :
                IrEnvironment_get(environment'.parent[1], n)
                    = IrEnvironment_get(environment.parent[1], n)]_vars

\* C1: the child has stored a name that its parent binds to another value
C1_Witness ==
    /\ pc >= 1
    /\ instructions[pc].i = "StoreName"
    /\ environment.parent # None
    /\ instructions[pc].name \in DOMAIN environment.parent[1].values
    /\ environment.parent[1].values[instructions[pc].name]
          # environment.values[instructions[pc].name]

\* What evaluating Identifier(name) at `position` must yield in `env`
Resolved(env, name, position) ==
    IF Nearest(env, name) = None THEN Err(UndefinedVariable(name), position)
    ELSE Ok(Nearest(env, name)[1])

\* C2: Identifier(name) yields the binding of the nearest frame of the chain
\* that binds name, and UndefinedVariable(name) exactly when no frame does:
\* as the terminal value of Return(Identifier), as the value StoreName stores,
\* and as the error that stops eval().
C2_IdentifierResolvesNearest ==
    /\ (state = "done" /\ instructions # <<>> /\ IsReturn(instructions[Len(instructions)])) =>
          LET instruction == instructions[Len(instructions)]
          IN result = Resolved(environment, instruction.expression.name, instruction.position)
    /\ (pc >= 1 /\ instructions[pc].i \in {"StoreName", "Expression"}
            /\ instructions[pc].expression.e = "Identifier") =>
          /\ Nearest(environment, instructions[pc].expression.name) # None
          /\ instructions[pc].i = "StoreName" =>
                environment.values[instructions[pc].name]
                    = Nearest(environment, instructions[pc].expression.name)[1]
    /\ state = "failed" =>
          LET instruction == instructions[pc + 1]
          IN /\ Nearest(environment, instruction.expression.name) = None
             /\ result = Resolved(environment, instruction.expression.name,
                                  instruction.position)

\* C2: a name bound in the innermost frame and, to another value, in its parent
\* has been read as the terminal value
C2_Witness ==
    /\ state = "done"
    /\ instructions # <<>>
    /\ IsReturn(instructions[Len(instructions)])
    /\ environment.parent # None
    /\ LET name == instructions[Len(instructions)].expression.name
       IN /\ name \in DOMAIN environment.values
          /\ name \in DOMAIN environment.parent[1].values
          /\ environment.parent[1].values[name] # environment.values[name]
          /\ result = Ok(environment.values[name])

(***************************************************************************)
(* C3                                                                      *)
(***************************************************************************)
\* The instructions of `program` before instruction k that store into `name`
StoresBefore(program, name, k) ==
    {j \in 1..(k - 1) : program[j].i = "StoreName" /\ program[j].name = name}

\* What reading g yields at the time instruction k of `program` runs
ValueWhenReached(program, k) ==
    IF StoresBefore(program, G, k) = {}
    THEN Err(UndefinedVariable(G), ReadG.body[1].position)
    ELSE Ok(program[Latest(StoresBefore(program, G, k))].expression.value)

\* C3: a closure resolves its free name g to the value g had when the closure
\* was produced: whatever stores of g the enclosing scope executes after the
\* capture, a call of the closure yields the value (or the UndefinedVariable)
\* that reading g yielded at the capture.
C3_ClosureReadsCapturedValue ==
    (/\ state = "done"
     /\ IsReturn(instructions[Len(instructions)])
     /\ StoresBefore(instructions, C, Len(instructions)) # {}) =>
        result = ValueWhenReached(instructions,
                                  Latest(StoresBefore(instructions, C, Len(instructions))))

\* C3: a closure captured while g held one value has been called after a store
\* of another value into g, and has yielded the first
C3_Witness ==
    /\ state = "done"
    /\ IsReturn(instructions[Len(instructions)])
    /\ StoresBefore(instructions, C, Len(instructions)) # {}
    /\ LET capture == Latest(StoresBefore(instructions, C, Len(instructions)))
       IN /\ StoresBefore(instructions, G, capture) # {}
          /\ result = ValueWhenReached(instructions, capture)
          /\ result # ValueWhenReached(instructions, Len(instructions))

(***************************************************************************)
(* C5                                                                      *)
(***************************************************************************)
ClosureNames == {C, D, N, X, Make, Pass}

IsCallOf(expression, name) ==
    /\ expression.e = "Call"
    /\ expression.function.e = "Identifier"
    /\ expression.function.name = name

\* C5, as claimed: the function a call of make returns has the caller's
\* current environment as its captured environment (every name resolves in the
\* capture as it does in the caller), and the already captured function a call
\* of pass returns keeps its capture (every name resolves as before).
C5_CapturesCallerEnvironment ==
    [][(AtInstruction("StoreName") /\ state' = "eval") =>
         LET instruction == instructions[pc + 1]
             stored == environment'.values[instruction.name]
         IN /\ IsCallOf(instruction.expression, Make) =>
                  /\ stored.environment # None
                  /\ \A name \in ClosureNames :
                        Nearest(stored.environment[1], name) = Nearest(environment, name)
            /\ IsCallOf(instruction.expression, Pass) =>
                  /\ stored.environment # None
                  /\ \A name \in ClosureNames :
                        Nearest(stored.environment[1], name)
                            = Nearest(environment.values[C].environment[1], name)]_vars

\* C5, amended: the function a call of make returns has as its captured
\* environment a fresh empty frame whose parent is the CALLEE's call
\* environment, the frame that binds the parameter n to the argument and whose
\* parent is the caller's current environment; the already captured function a
\* call of pass returns has a fresh empty frame whose parent is its capture.
C5_CapturesCallEnvironment ==
    [][(AtInstruction("StoreName") /\ state' = "eval") =>
         LET instruction == instructions[pc + 1]
             stored == environment'.values[instruction.name]
         IN /\ IsCallOf(instruction.expression, Make) =>
                  stored = [Adder EXCEPT !.environment =
                              << [values |-> EmptyMap,
                                  parent |-> << [values |-> (N :> instruction.expression.arguments[1].value),
                                                 parent |-> <<environment>>] >>] >>]
            /\ IsCallOf(instruction.expression, Pass) =>
                  stored = [environment.values[C] EXCEPT !.environment =
                              << [values |-> EmptyMap,
                                  parent |-> environment.values[C].environment] >>]]_vars

\* C5: make(1) has been called where the caller binds n itself, and the
\* function stored has a capture in which n is the argument
C5_Witness ==
    /\ state = "eval"
    /\ pc >= 1
    /\ instructions[pc].i = "StoreName"
    /\ IsCallOf(instructions[pc].expression, Make)
    /\ Nearest(environment, N) = Some(Number(9))
    /\ Nearest(environment.values[instructions[pc].name].environment[1], N)
          = Some(instructions[pc].expression.arguments[1].value)

(***************************************************************************)
(* C6                                                                      *)
(***************************************************************************)
\* The argument of the call of make that produced the closure `name` holds
\* when instruction k of `program` runs: Some(a), or None when name is unbound
RECURSIVE Made(_, _, _)
Made(program, name, k) ==
    IF StoresBefore(program, name, k) = {} THEN None
    ELSE LET j == Latest(StoresBefore(program, name, k))
         IN IF IsCallOf(program[j].expression, Make)
            THEN Some(program[j].expression.arguments[1].value.n)
            ELSE IF IsCallOf(program[j].expression, Pass) THEN Made(program, C, j)
            ELSE None

\* C6: the closure make(a) returns, called with b, yields a + b: called by the
\* name it was stored under, after any other closures were made and whatever
\* the caller binds n to, called after pass handed it on, and called directly
\* as make(a)(b).
C6_MakeYieldsSum ==
    (state = "done" /\ IsReturn(instructions[Len(instructions)])) =>
        LET call == instructions[Len(instructions)].expression
            b == call.arguments[1].value.n
        IN IF call.function.e = "Call"
           THEN result = Ok(Number(call.function.arguments[1].value.n + b))
           ELSE Made(instructions, call.function.name, Len(instructions)) # None =>
                    result = Ok(Number(Made(instructions, call.function.name,
                                            Len(instructions))[1] + b))

\* C6: two closures made with 1 and with 2 are bound, and the call of the
\* second with 5 has yielded 7
C6_Witness ==
    /\ state = "done"
    /\ IsReturn(instructions[Len(instructions)])
    /\ Made(instructions, C, Len(instructions)) = Some(1)
    /\ Made(instructions, D, Len(instructions)) = Some(2)
    /\ result = Ok(Number(7))

(***************************************************************************)
(* C4                                                                      *)
(***************************************************************************)
\* The Call a Return of CallPool holds, directly or as the last instruction
\* of a nested block
CallSite(instruction) ==
    IF instruction.expression.e = "Block"
    THEN instruction.expression.block[Len(instruction.expression.block)].expression
    ELSE instruction.expression

\* The call is made from a nested block that first binds g itself
RebindsG(instruction) ==
    /\ instruction.expression.e = "Block"
    /\ instruction.expression.block[1].i = "StoreName"

\* A terminal call of f with one argument is about to be evaluated
AtCallOfF ==
    /\ state = "eval"
    /\ pc = Len(instructions)
    /\ IsReturn(instructions[pc])
    /\ Len(CallSite(instructions[pc]).arguments) = 1
    /\ F \in DOMAIN environment.values

\* No step changes the environment of the top-level scope but a StoreName of
\* that scope, and that one only at the name it stores
CallerMappingKept ==
    environment' =
        IF AtInstruction("StoreName") /\ state' = "eval"
        THEN [environment EXCEPT !.values =
                (instructions[pc + 1].name :> environment'.values[instructions[pc + 1].name])
                    @@ environment.values]
        ELSE environment

\* C4, as claimed: a function f bound in scope S and called from S or from a
\* block nested in S reads the bindings of S (a body that reads g yields the
\* value S binds g to), and after the call the mapping of S is unchanged.
C4_ReadsBindingsOfDefiningScope ==
    [][/\ CallerMappingKept
       /\ (AtCallOfF /\ environment.values[F].body = ReadG.body /\ G \in DOMAIN environment.values) =>
              result' = Ok(environment.values[G])]_vars

\* C4, amended: after a call returns, the mapping of the caller's scope S is
\* unchanged, whatever the body binds or stores; a bare f (no captured
\* environment) called from S or from a block nested in S reads the bindings
\* visible at the call site, so a binding of S unless the calling block has
\* bound the name itself; an f that is a closure reads the bindings visible
\* when it was captured, not those S holds at the call.
C4_ReadsBindingsOfCallSite ==
    [][/\ CallerMappingKept
       /\ AtCallOfF =>
              LET f == environment.values[F]
              IN result' =
                   IF f.body # ReadG.body THEN Ok(Number(4))
                   ELSE IF f.environment # None
                   THEN ValueWhenReached(instructions,
                                         Latest(StoresBefore(instructions, F, pc)))
                   ELSE IF RebindsG(instructions[pc]) THEN Ok(Number(9))
                   ELSE IF G \in DOMAIN environment.values THEN Ok(environment.values[G])
                   ELSE Err(UndefinedVariable(G), ReadG.body[1].position)]_vars

\* C4: a function that stores g and y has been called from a scope that binds
\* g to 1, has yielded its argument, and the scope still binds g to 1 and
\* binds no x and no y
C4_Witness ==
    /\ state = "done"
    /\ IsReturn(instructions[pc])
    /\ Len(CallSite(instructions[pc]).arguments) = 1
    /\ F \in DOMAIN environment.values
    /\ environment.values[F] = WriteG
    /\ result = Ok(Number(4))
    /\ DOMAIN environment.values = {Reader, F, G}
    /\ environment.values[G] = Number(1)

(***************************************************************************)
(* C7                                                                      *)
(***************************************************************************)
\* C7: a Call whose number of arguments differs from the number of parameters
\* of the function called yields the runtime error ArityMismatch (and so no
\* value of the body).
C7_ArityMismatchIsAnError ==
    (/\ state = "done"
     /\ IsReturn(instructions[pc])
     /\ F \in DOMAIN environment.values
     /\ Len(CallSite(instructions[pc]).arguments) # Len(environment.values[F].parameters)) =>
        /\ ~result.ok
        /\ result.err.kind = "ArityMismatch"

(***************************************************************************)
(* C9                                                                      *)
(***************************************************************************)
Comparisons == {"EQ", "NEQ", "LT", "LTE", "GT", "GTE"}

\* The table of supported operators of two operands of type t
Supported(t) ==
    CASE t = "Number" -> {"Plus", "Minus", "Asterisk", "Slash"} \cup Comparisons
      [] t = "String" -> {"Plus"} \cup Comparisons
      [] t = "Boolean" -> {"EQ", "NEQ"}
      [] OTHER -> {}

InTable(left, operator, right) == left.t = right.t /\ operator \in Supported(left.t)

OperandsError(left, operator, right, position) ==
    Err(InvalidOperands(LiteralValue_to_string(left), LiteralValue_to_string(right), operator),
        position)

\* C9, as claimed: Infix(op, l, r) yields InvalidOperands(l, r, op) for every
\* operand pair and operator outside the table, an unsupported operator on two
\* operands of the same supported type included, and a value inside it.
C9_OutsideTableInvalidOperands ==
    state = "done" =>
        LET left == instructions[1].expression.value
            call == instructions[4].expression
        IN IF InTable(left, call.operator, call.right.value) THEN result.ok
           ELSE result = OperandsError(left, call.operator, call.right.value,
                                       instructions[4].position)

\* C9, amended: Infix(op, l, r) outside the table yields InvalidOperator(op)
\* when l and r are both Numbers, both Strings or both Booleans (the operator
\* is the unsupported part, as for Boolean + Boolean and Number % Number), and
\* InvalidOperands(l, r, op) for every other pair of operand values; inside
\* the table it yields a value.
C9_OutsideTableErrorByOperands ==
    state = "done" =>
        LET left == instructions[1].expression.value
            call == instructions[4].expression
        IN IF InTable(left, call.operator, call.right.value) THEN result.ok
           ELSE IF left.t = call.right.value.t /\ left.t \in {"Number", "String", "Boolean"}
           THEN result = Err(InvalidOperator(call.operator), instructions[4].position)
           ELSE result = OperandsError(left, call.operator, call.right.value,
                                       instructions[4].position)

\* C9: true + true has yielded InvalidOperator(+)
C9_Witness ==
    /\ state = "done"
    /\ instructions[1].expression.value = Boolean(TRUE)
    /\ instructions[4].expression.right.value = Boolean(TRUE)
    /\ instructions[4].expression.operator = "Plus"
    /\ result = Err(InvalidOperator("Plus"), Position(4, 1))

(***************************************************************************)
(* C10                                                                     *)
(***************************************************************************)
\* C10: Index(left, i) on an array of length n yields IndexOutOfBounds(i) when
\* i is outside 0..n-1, every negative i included, and the value of the
\* element at position i when i is inside.
C10_OutOfRangeIsAnError ==
    state = "done" =>
        LET array == instructions[1].expression.value.a
            i == instructions[4].expression.index.value.n
        IN result = IF i \in 0..(Len(array) - 1) THEN Ok(array[i + 1].value)
                    ELSE Err(IndexOutOfBounds(i), instructions[4].position)

(***************************************************************************)
(* C11                                                                     *)
(***************************************************************************)
Failing == {FailStore, FailBlock, FailCall}

\* The first instruction of `program` that fails, 0 when none does
FirstFailing(program) ==
    IF \A k \in 1..Len(program) : program[k] \notin Failing THEN 0
    ELSE CHOOSE k \in 1..Len(program) :
            /\ program[k] \in Failing
            /\ \A j \in 1..(k - 1) : program[j] \notin Failing

\* The error each failing instruction raises, where it is raised
ErrorOf(instruction) ==
    CASE instruction = FailStore -> Err(UndefinedVariable(U), Position(2, 1))
      [] instruction = FailBlock -> Err(InvalidOperator("Bang"), Position(4, 3))
      [] instruction = FailCall -> Err(NotAnArray(<<49>>), Position(50, 2))

\* What the failing instruction logs before it fails
LoggedBy(instruction) ==
    CASE instruction = FailStore -> <<>>
      [] instruction = FailBlock -> <<Number(7)>>
      [] instruction = FailCall -> <<Number(9)>>

\* What the first k instructions of `program`, none failing, have logged
RECURSIVE LoggedBefore(_, _)
LoggedBefore(program, k) ==
    IF k = 0 THEN <<>>
    ELSE LoggedBefore(program, k - 1)
            \o (IF program[k] = LogOf(2, Position(3, 1)) THEN <<Number(2)>> ELSE <<>>)

\* The top-level frame after the first k instructions, none failing
BoundBefore(program, k) ==
    [values |-> IF \E j \in 1..k : program[j] = StoreX THEN X :> Number(1) ELSE EmptyMap,
     parent |-> None]

\* C11: when an instruction raises a runtime error, eval stops there with
\* that error: no later instruction is executed (the position of eval never
\* passes the failing instruction, last() is never reached, nothing more is
\* logged), the failing StoreName adds no binding, and an error raised in a
\* nested block or in a function body arrives unchanged, with the position of
\* the nested instruction that raised it.
C11_ErrorStopsEval ==
    LET k == FirstFailing(instructions)
    IN /\ k # 0 => pc < k /\ state # "done"
       /\ state = "failed" =>
             /\ k # 0
             /\ pc = k - 1
             /\ result = ErrorOf(instructions[k])
             /\ environment = BoundBefore(instructions, k - 1)
             /\ out = LoggedBefore(instructions, k - 1) \o LoggedBy(instructions[k])

\* C11: a function body has failed after its first log, in a StoreName that
\* is followed by another instruction, after an earlier binding and log
C11_Witness ==
    /\ state = "failed"
    /\ instructions[pc + 1] = FailCall
    /\ pc + 1 < Len(instructions)
    /\ out = <<Number(2), Number(9)>>
    /\ result = Err(NotAnArray(<<49>>), Position(50, 2))
    /\ Y \notin DOMAIN environment.values

(***************************************************************************)
(* C12                                                                     *)
(***************************************************************************)
Numbers(ns) == [k \in 1..Len(ns) |-> Number(ns[k])]

\* f is bound when instruction k of `program` runs
FBound(program, k) == \E j \in 1..(k - 1) : program[j] = StoreF

\* What instruction k of `program` logs when eval executes it
TraceOf(program, k) ==
    CASE program[k] = LogOf(1, Position(1, 1)) -> <<1>>
      [] program[k] = LogOf(2, Position(2, 1)) -> <<2>>
      [] program[k] = StoreInfix -> <<3, 4>>
      [] program[k] = CallF -> IF FBound(program, k) THEN <<6, 7, 5>> ELSE <<6, 7>>
      [] OTHER -> <<>>

\* What the first k instructions of `program` log
RECURSIVE TraceBefore(_, _)
TraceBefore(program, k) ==
    IF k = 0 THEN <<>> ELSE TraceBefore(program, k - 1) \o TraceOf(program, k)

\* C12: instructions execute in the order of the sequence, the left operand
\* of an Infix is evaluated before the right one, and the arguments of a Call
\* in positional order before the callee's body: the trace of the builtin log
\* is, at every point, what the instructions executed so far log in that
\* order, log(a); log(b) leaves [a, b], and f(log(a), log(b)) records a, then
\* b, then what f's body records.
C12_TraceInEvaluationOrder ==
    out = Numbers(
            CASE state = "eval" -> TraceBefore(instructions, pc)
              [] state = "failed" -> TraceBefore(instructions, pc + 1)
              [] state = "done" ->
                    TraceBefore(instructions, pc)
                        \o (IF instructions # <<>> /\ instructions[pc] = ReturnF
                            THEN IF FBound(instructions, pc) THEN <<8, 9, 5>> ELSE <<8, 9>>
                            ELSE <<>>))

\* C12: f(log(6), log(7)) and then log(1) have been executed, and the trace is
\* the arguments in order, the body's log, and the later statement's
C12_Witness ==
    /\ state = "done"
    /\ out = Numbers(<<6, 7, 5, 1>>)

(***************************************************************************)
(* C13                                                                     *)
(***************************************************************************)
\* What a call of log at `position`, made when instruction k of `program`
\* runs, yields: the user's binding of log decides when there is one
CallOfLog(program, k, position) ==
    IF StoresBefore(program, Log, k) = {} THEN Ok(Boolean(FALSE))
    ELSE IF program[Latest(StoresBefore(program, Log, k))].expression.value.t = "Function"
    THEN Ok(Number(42))
    ELSE Err(NotAFunction(<<49>>), position)

\* What the builtin log has recorded once the first k instructions of
\* `program` and, when `terminal`, its trailing Return are evaluated
RECURSIVE Recorded(_, _, _)
Recorded(program, k, terminal) ==
    IF k = 0 THEN <<>>
    ELSE Recorded(program, k - 1, FALSE)
            \o (IF StoresBefore(program, Log, k) # {} THEN <<>>
                ELSE IF program[k].i = "Expression" THEN <<Number(3)>>
                ELSE IF terminal /\ IsReturn(program[k])
                        /\ CallSite(program[k]).function.name = Log
                THEN <<Number(4)>>
                ELSE <<>>)

\* C13: a Call of an identifier resolves the name in the environment chain
\* first: a user binding of log, to a function or to anything else, wins over
\* the builtin log, from the scope that binds it and from a nested block; the
\* builtin runs only while no frame binds the name; and a name that neither
\* the chain nor the registry knows yields UndefinedVariable(name).
C13_EnvironmentBeforeBuiltins ==
    /\ (state = "done" /\ instructions # <<>> /\ IsReturn(instructions[pc])) =>
          LET instruction == instructions[pc]
              position == IF instruction.expression.e = "Block"
                          THEN instruction.expression.block[1].position
                          ELSE instruction.position
          IN result = IF CallSite(instruction).function.name = U
                      THEN Err(UndefinedVariable(U), position)
                      ELSE CallOfLog(instructions, pc, position)
    /\ state = "failed" =>
          result = CallOfLog(instructions, pc + 1, instructions[pc + 1].position)
    /\ out = Recorded(instructions, pc, state = "done")

\* C13: log is bound by the user to a function, a nested block has called
\* it, and the call has yielded the user's value and recorded nothing
C13_Witness ==
    /\ state = "done"
    /\ instructions # <<>>
    /\ instructions[pc].i = "Return"
    /\ instructions[pc].expression.e = "Block"
    /\ Log \in DOMAIN environment.values
    /\ environment.values[Log] = UserLog
    /\ result = Ok(Number(42))
    /\ out = <<>>

(***************************************************************************)
(* C14                                                                     *)
(***************************************************************************)
\* The type of the value of a let statement, where the statement itself or an
\* earlier let tells it; None for a call and for a name not declared
TypeOfValue(value, declared) ==
    CASE value.x = "NumberLiteral" -> Some("Number")
      [] value.x = "StringLiteral" -> Some("String")
      [] value.x = "BooleanLiteral" -> Some("Boolean")
      [] value.x = "PrefixExpression" -> Some("Number")
      [] value.x = "InfixExpression" -> Some("Number")
      [] value.x = "IfExpression" -> Some("Number")
      [] value.x = "ArrayLiteral" -> Some("Array")
      [] value.x = "FunctionLiteral" -> Some("Function")
      [] value.x = "Identifier" -> IF declared THEN Some("Number") ELSE None
      [] OTHER -> None

\* C14: lowering let name: T = expr fails with ExpectedDataType(expected = T,
\* found = type of expr) whenever the type of expr differs from T, for every
\* kind of expression, and emits nothing for the statement; when the types
\* are equal it emits the lowered expression followed by StoreName(name).
C14_LetChecksAnnotatedType ==
    [][AtStatement("LetStatement") =>
         LET stmt == compiler.program.statements[statement + 1]
             declared == /\ stmt.value.x = "Identifier"
                         /\ \E k \in 1..statement :
                               /\ compiler.program.statements[k].s = "LetStatement"
                               /\ compiler.program.statements[k].name = stmt.value
             type == TypeOfValue(stmt.value, declared)
         IN type # None =>
              IF type[1] # stmt.data_type
              THEN /\ compiled' # Pending
                   /\ ~compiled'.ok
                   /\ compiled'.err.kind = "ExpectedDataType"
                   /\ compiled'.err.expected = stmt.data_type
                   /\ compiled'.err.found = type[1]
                   /\ compiler'.code = compiler.code
              ELSE /\ compiled' = Pending
                   /\ compiler'.code =
                         compile_expression(compiler.code, stmt.value, None).code
                             \o <<Instruction_StoreName(stmt.name.value)>>]_vars

(***************************************************************************)
(* C16                                                                     *)
(***************************************************************************)
\* The statements of `body` up to and including its first Return statement,
\* the whole body when it has none
UpToFirstReturn(body) ==
    LET returns == {k \in 1..Len(body) : body[k].s = "ReturnStatement"}
    IN IF returns = {} THEN body
       ELSE SubSeq(body, 1, CHOOSE k \in returns : \A other \in returns : k <= other)

\* The body of the function literals of the program under compilation
SourceBody == compiler.program.statements[1].value.body.statements

\* C16: the body of a lowered function literal is the lowering of the source
\* body's statements up to and including the first Return statement of the
\* body, in source order, with nothing of what follows that Return; a body
\* with no Return statement is lowered whole.
C16_BodyEndsAtFirstReturn ==
    \A k \in 1..Len(compiler.code) :
        compiler.code[k].c = "LoadConst" =>
            compiler.code[k].value.literal.body
                = compile_statements(<<>>, UpToFirstReturn(SourceBody)).code

\* C16: a function literal whose body goes on after its first Return has
\* been lowered, and the lowered body ends with that Return and is shorter
\* than the lowering of the whole body
C16_Witness ==
    /\ statement >= 1
    /\ Len(compiler.code) >= 1
    /\ Len(SourceBody) = 3
    /\ SourceBody[1].s = "LetStatement"
    /\ SourceBody[2].s = "ReturnStatement"
    /\ LET body == compiler.code[1].value.literal.body
       IN /\ body = compile_statements(<<>>, SubSeq(SourceBody, 1, 2)).code
          /\ body[Len(body)] = Instruction_Return
          /\ Len(body) < Len(compile_statements(<<>>, SourceBody).code)

(***************************************************************************)
(* C15                                                                     *)
(***************************************************************************)
\* The entries maps of a table, from the frame itself to the outermost
RECURSIVE TableFrames(_)
TableFrames(frame) ==
    <<frame.entries>> \o (IF frame.parent = None THEN <<>> ELSE TableFrames(frame.parent[1]))

\* The frames of a table that hold name
Holding(frame, name) ==
    {k \in 1..Len(TableFrames(frame)) : name \in DOMAIN TableFrames(frame)[k]}

\* The entry of the nearest frame that holds name
NearestEntry(frame, name) ==
    IF Holding(frame, name) = {} THEN None
    ELSE LET k == CHOOSE j \in Holding(frame, name) : \A other \in Holding(frame, name) : j <= other
         IN Some(TableFrames(frame)[k][name])

\* C15: insert(name, entry) changes only the frame it is called on, at name,
\* and leaves the entries of every parent frame as they were; lookup(name)
\* yields the entry of the nearest frame of the chain that holds name, an
\* inner entry shadowing an outer one, and nothing when no frame holds it;
\* lookup_mut borrows that same entry: reading it yields what lookup yields
\* and assigning to it changes what lookup yields and no other entry.
C15_TableScopes ==
    [][/\ returned'.op = "insert" =>
             /\ Tail(TableFrames(table')) = Tail(TableFrames(table))
             /\ \A name \in {X, Y} \ {returned'.name} :
                   (name \in DOMAIN table'.entries) = (name \in DOMAIN table.entries)
                   /\ NearestEntry(table', name) = NearestEntry(table, name)
             /\ table'.entries[returned'.name] = returned'.entry
       /\ returned'.op = "lookup" =>
             /\ returned'.r = NearestEntry(table, returned'.name)
             /\ table' = table
       /\ returned'.op = "lookup_mut" =>
             /\ returned'.r = NearestEntry(table, returned'.name)
             /\ returned'.r = SymbolTable_lookup(table, returned'.name)
             /\ table' = table
       /\ returned'.op = "assign" =>
             /\ SymbolTable_lookup(table', returned'.name) = Some(returned'.entry)
             /\ \A k \in 1..Len(TableFrames(table)) :
                   /\ DOMAIN TableFrames(table')[k] = DOMAIN TableFrames(table)[k]
                   /\ \A name \in DOMAIN TableFrames(table)[k] :
                         TableFrames(table')[k][name] # TableFrames(table)[k][name] =>
                            /\ name = returned'.name
                            /\ k = CHOOSE j \in Holding(table, name) :
                                      \A other \in Holding(table, name) : j <= other]_vars

\* C15: a name held by the frame of the table and, with another entry, by its
\* parent has been looked up, and the lookup has yielded the inner entry
C15_Witness ==
    /\ returned # Pending
    /\ returned.op = "lookup"
    /\ table.parent # None
    /\ returned.name \in DOMAIN table.entries
    /\ returned.name \in DOMAIN table.parent[1].entries
    /\ table.parent[1].entries[returned.name] # table.entries[returned.name]
    /\ returned.r = Some(table.entries[returned.name])

(***************************************************************************)
(* C17                                                                     *)
(***************************************************************************)
\* The terminal instruction of the program is a call of a bare function, direct
\* or from a block, and last() is about to evaluate it
AtTerminalCall ==
    /\ state = "eval"
    /\ pc = Len(instructions)
    /\ pc > Len(DynamicPrelude)
    /\ IsReturn(instructions[pc])

\* The Return of the body of the function a call site names
BodyReturn(site) == IF site.function.name = F THEN ReadG.body[1] ELSE Countdown.body[1]

\* What g is bound to where and when the terminal call is made: by the calling
\* block if the call is made from a block, else by the latest store of the
\* program text before the call
VisibleAtCall(program, k) ==
    IF program[k].expression.e = "Block" THEN Some(program[k].expression.block[1].expression.value)
    ELSE IF StoresBefore(program, G, k) = {} THEN None
    ELSE Some(program[Latest(StoresBefore(program, G, k))].expression.value)

\* C17: a function value with no captured environment, bound by StoreName,
\* resolves its free names where and when it is called: a call yields the
\* value g is bound to at the call site, by a store made after the function
\* was defined or by the calling block, and UndefinedVariable(g) when nothing
\* binds g there; a body that calls the function by its own name finds it the
\* same way, so the call of r that goes through r again yields that value too.
C17_BareFunctionReadsCallSite ==
    [][AtTerminalCall =>
          LET visible == VisibleAtCall(instructions, pc)
          IN result' = IF visible = None
                       THEN Err(UndefinedVariable(G),
                                BodyReturn(CallSite(instructions[pc])).position)
                       ELSE Ok(visible[1])]_vars

\* C17: r, whose body calls r by name, has been called from a block that binds
\* g to 9 while the top-level scope, which bound g after r was defined, binds
\* it to 1, and the call has yielded 9
C17_Witness ==
    /\ state = "done"
    /\ pc > Len(DynamicPrelude)
    /\ IsReturn(instructions[pc])
    /\ instructions[pc].expression.e = "Block"
    /\ CallSite(instructions[pc]).function.name = R
    /\ R \in DOMAIN environment.values
    /\ environment.values[R] = Countdown
    /\ G \in DOMAIN environment.values
    /\ environment.values[G] = Number(1)
    /\ result = Ok(Number(9))

====
